---- MODULE Spec2Model ----
(***************************************************************************)
(* Model of src/server.js: the GET /api/pinterest handler, pinterestSearch,*)
(* getBrowser, the LRU result cache and the pure helpers they use.         *)
(*                                                                         *)
(* JavaScript runs one callback at a time, so an action is the code that   *)
(* runs between two awaits of one request; the outcome of each awaited     *)
(* browser operation (resolve or reject) is chosen by the environment.     *)
(* Strings are sequences of one-character strings, so that trimming,       *)
(* parseInt and the template-string cache key are computed, not assumed.   *)
(***************************************************************************)
EXTENDS Integers, Sequences, FiniteSets, TLC

(* ------------------------------ bounds ------------------------------- *)

\* request slots that may be in flight at the same time
NReq == 2
\* requests received in one behaviour of the concurrent specification
MaxReqs == 2
\* requests received in one behaviour of the sequential specification
MaxFetches == 4
\* the clock runs from 0 to MaxTime
MaxTime == 2
\* cache capacity, scaled down from max: 200
CacheMax == 2
\* cache time-to-live in clock ticks, scaled down from 30 minutes
TTL == 1
\* longest raw parameter text of the parameter-parsing specification
MaxStrLen == 3
\* longest extracted list of the deduplication specification
MaxPins == 4
\* records beyond the first TopN in the lists given to computeKD
MaxTail == 2
\* the most the clock advances between cache.has and cache.get
MaxGap == 1

(* ------------------------- program constants ------------------------- *)

DefaultScrolls == 3
MinScrolls == 1
MaxScrolls == 10
TopN == 20
SaveScale == 500
VolumeScale == 1000
LowCompetitionMax == 35
SampleMax == 50

Reqs == 1..NReq

VARIABLES
  browser,     \* module-level `let browser`: 0 while unset, else the handle
  launches,    \* browser processes launched successfully so far
  contexts,    \* open browsing contexts (named by the request that opened them)
  pages,       \* open pages
  cache,       \* the LRU: entries [key, value, start], least recently used first
  now,         \* the clock the cache reads
  env,         \* process.env: which of PIN_EMAIL, PIN_PASSWORD are configured
  started,     \* requests received so far
  pc,          \* per slot: the await the request is suspended at
  id,          \* per slot: serial number of the request
  req,         \* per slot: req.query (q, scrolls, login as sent)
  wrote,       \* per slot (history): the request executed cache.set
  args,        \* per slot: {query, scrolls, login} passed to pinterestSearch
  cacheKey,    \* per slot: const cacheKey
  br,          \* per slot: const browser = await getBrowser()
  i,           \* per slot: the scroll loop counter
  pending,     \* per slot: completion of the try block, held during finally
  last,        \* the request answered most recently, with its response
  lastSet,     \* history: per key, the value and time of the latest cache.set
               \* and the cache operation that last used the key
  ops,         \* history: cache operations (get that hits, set) so far
  fn,          \* pure-function specifications: which function, calls made
  arg,         \* pure-function specifications: the input
  ret          \* pure-function specifications: the output

vars == <<browser, launches, contexts, pages, cache, now, env, started, pc, id,
          req, wrote, args, cacheKey, br, i, pending, last, lastSet, ops, fn, arg, ret>>

(* ------------------------------ values ------------------------------- *)

NoBrowser == 0
Undefined == [undefined |-> TRUE]
\* a query-string parameter: absent, or present with a text
Absent == [present |-> FALSE, text |-> <<>>]
Str(s) == [present |-> TRUE, text |-> s]
\* a JavaScript number: an integer or NaN
Num(n) == [nan |-> FALSE, n |-> n]
NaN == [nan |-> TRUE, n |-> 0]

Min(a, b) == IF a <= b THEN a ELSE b
Max(a, b) == IF a >= b THEN a ELSE b

(* ------------------------------ strings ------------------------------ *)

DigitChars == <<"0", "1", "2", "3", "4", "5", "6", "7", "8", "9">>
IsDigit(c) == \E d \in 1..10 : DigitChars[d] = c
DigitVal(c) == (CHOOSE d \in 1..10 : DigitChars[d] = c) - 1
IsSpace(c) == c = " "

RECURSIVE TrimStart(_)
TrimStart(s) ==
  IF s # <<>> /\ IsSpace(Head(s)) THEN TrimStart(Tail(s)) ELSE s

RECURSIVE TrimEnd(_)
TrimEnd(s) ==
  IF s # <<>> /\ IsSpace(s[Len(s)]) THEN TrimEnd(SubSeq(s, 1, Len(s) - 1)) ELSE s

\* String.prototype.trim
Trim(s) == TrimEnd(TrimStart(s))

\* the value of the longest run of decimal digits at the front of s
RECURSIVE DigitsValue(_, _)
DigitsValue(s, acc) ==
  IF s # <<>> /\ IsDigit(Head(s))
    THEN DigitsValue(Tail(s), 10 * acc + DigitVal(Head(s)))
    ELSE acc

\* parseInt(s, 10): leading white space, an optional sign, decimal digits;
\* NaN when no digit follows
ParseInt(s) ==
  LET t == TrimStart(s)
      signed == t # <<>> /\ Head(t) \in {"-", "+"}
      u == IF signed THEN Tail(t) ELSE t
  IN IF u = <<>> \/ ~IsDigit(Head(u)) THEN NaN
     ELSE IF signed /\ Head(t) = "-" THEN Num(0 - DigitsValue(u, 0))
     ELSE Num(DigitsValue(u, 0))

\* Math.max and Math.min: NaN when either argument is NaN
MathMax(a, b) == IF a.nan \/ b.nan THEN NaN ELSE Num(Max(a.n, b.n))
MathMin(a, b) == IF a.nan \/ b.nan THEN NaN ELSE Num(Min(a.n, b.n))

RECURSIVE NatStr(_)
NatStr(n) ==
  IF n < 10 THEN <<DigitChars[n + 1]>> ELSE NatStr(n \div 10) \o <<DigitChars[(n % 10) + 1]>>

\* a number as a template string renders it
NumStr(x) ==
  IF x.nan THEN <<"N", "a", "N">>
  ELSE IF x.n < 0 THEN <<"-">> \o NatStr(0 - x.n) ELSE NatStr(x.n)

BoolStr(b) == IF b THEN <<"t", "r", "u", "e">> ELSE <<"f", "a", "l", "s", "e">>

(* ----------------------- the handler's parameters -------------------- *)

\* the query taken without .trim()
QueryOf_NoTrim(q) == IF q.present THEN q.text ELSE <<>>

\* (req.query.q || '').toString().trim()
QueryOf(q) == Trim(IF q.present THEN q.text ELSE <<>>)

\* Math.min(10, Math.max(1, parseInt(req.query.scrolls?.toString() || '3', 10)))
ScrollsOf(s) ==
  MathMin(Num(MaxScrolls),
          MathMax(Num(MinScrolls),
                  ParseInt(IF s.present /\ s.text # <<>> THEN s.text
                           ELSE NatStr(DefaultScrolls))))

\* req.query.login === '1'
LoginOf(l) == l.present /\ l.text = <<"1">>

\* the three fields joined without the delimiter
CacheKey_NoDelimiter(query, scrolls, login) ==
  query \o NumStr(scrolls) \o BoolStr(login)

\* `${query}|${scrolls}|${login}`
CacheKey(query, scrolls, login) ==
  query \o <<"|">> \o NumStr(scrolls) \o <<"|">> \o BoolStr(login)

(* ----------------------------- pure helpers -------------------------- *)

\* an extracted record; url stands for the fields other than pinId and saves
Pin(p, u, n) == [pinId |-> p, url |-> u, saves |-> n]

\* findLastIndex in place of findIndex
FindIndex_Last(arr, p) ==
  CHOOSE j \in 1..Len(arr) :
    arr[j].pinId = p /\ \A k \in (j + 1)..Len(arr) : arr[k].pinId # p

\* arr.findIndex(x => x.pinId === p): the first index holding pinId p
FindIndex(arr, p) ==
  CHOOSE j \in 1..Len(arr) :
    arr[j].pinId = p /\ \A k \in 1..(j - 1) : arr[k].pinId # p

\* the filter of line 128, from index j on
RECURSIVE FilterFrom(_, _)
FilterFrom(arr, j) ==
  IF j > Len(arr) THEN <<>>
  ELSE (IF FindIndex(arr, arr[j].pinId) = j THEN <<arr[j]>> ELSE <<>>)
       \o FilterFrom(arr, j + 1)

\* pins.filter((p, i, arr) => arr.findIndex(x => x.pinId === p.pinId) === i)
Dedupe(pins) == FilterFrom(pins, 1)

\* the whole list in place of its first n records
Slice_All(arr, n) == arr

\* arr.slice(0, n)
Slice(arr, n) == SubSeq(arr, 1, Min(n, Len(arr)))

RECURSIVE SumSaves(_)
SumSaves(arr) == IF arr = <<>> THEN 0 ELSE Head(arr).saves + SumSaves(Tail(arr))

\* computeKD without the two Math.min(1, ...): the rounded value of
\* 60 * loadedCount / 1000 + 40 * sum / (500 * len)
computeKD_NoCap(pinList, loadedCount) ==
  LET top == SubSeq(pinList, 1, Min(TopN, Len(pinList)))
      sum == SumSaves(top)
      len == IF top = <<>> THEN 1 ELSE Len(top)
      num == 3 * loadedCount * len + 4 * sum
      den == 50 * len
  IN (2 * num + den) \div (2 * den)

\* computeKD, in exact arithmetic: comp = cn/cd, pop = pn/pd,
\* Math.round(x) = floor(x + 1/2). The code computes in doubles, whose result
\* is this one whenever (0.6 * comp + 0.4 * pop) * 100 is not exactly half
\* way between two integers; the inputs of the specifications are chosen so.
computeKD(pinList, loadedCount) ==
  LET top == Slice(pinList, TopN)
      sum == SumSaves(top)
      len == Len(top)
      popCapped == len = 0 \/ sum >= SaveScale * len
      pn == IF len = 0 THEN 0 ELSE IF popCapped THEN 1 ELSE sum
      pd == IF popCapped THEN 1 ELSE SaveScale * len
      compCapped == loadedCount >= VolumeScale
      cn == IF compCapped THEN 1 ELSE loadedCount
      cd == IF compCapped THEN 1 ELSE VolumeScale
      num == 60 * cn * pd + 40 * pn * cd
      den == cd * pd
  IN (2 * num + den) \div (2 * den)

\* loadedPins counted before the deduplication
Assemble_RawCount(query, pinList) ==
  LET uniquePins == Dedupe(pinList)
      kd == computeKD(uniquePins, Len(pinList))
  IN [query |-> query,
      loadedPins |-> Len(pinList),
      keywordDifficulty |-> kd,
      lowCompetition |-> (kd <= LowCompetitionMax),
      sample |-> Slice(uniquePins, SampleMax)]

\* lines 128-137: the Search Result assembled from the extracted records
Assemble(query, pinList) ==
  LET uniquePins == Dedupe(pinList)
      kd == computeKD(uniquePins, Len(uniquePins))
  IN [query |-> query,
      loadedPins |-> Len(uniquePins),
      keywordDifficulty |-> kd,
      lowCompetition |-> (kd <= LowCompetitionMax),
      sample |-> Slice(uniquePins, SampleMax)]

(* ------------------------------ the cache ---------------------------- *)
(* new LRU({ max, ttl }): an entry is stale once more than ttl has passed  *)
(* since it was set; stale entries are not purged in the background, they  *)
(* stay (and count towards max) until a get finds them, a set replaces    *)
(* them or they are evicted as least recently used.                       *)

IndexOf(c, k) ==
  IF \E j \in 1..Len(c) : c[j].key = k
    THEN CHOOSE j \in 1..Len(c) : c[j].key = k
    ELSE 0

RemoveAt(c, j) == SubSeq(c, 1, j - 1) \o SubSeq(c, j + 1, Len(c))

\* the ttl option not taking effect
IsStale_Never(e, t) == FALSE

IsStale(e, t) == t - e.start > TTL

\* the staleness test of has inverted
LRUHas_Inverted(c, k, t) ==
  IndexOf(c, k) # 0 /\ t - c[IndexOf(c, k)].start > TTL

\* cache.has(k): present and not stale; neither recency nor content changes
LRUHas(c, k, t) == IndexOf(c, k) # 0 /\ ~IsStale(c[IndexOf(c, k)], t)

\* a get that does not touch the recency order
LRUGet_NoTouch(c, k, t) ==
  LET j == IndexOf(c, k) IN
  IF j = 0 THEN [cache |-> c, value |-> Undefined]
  ELSE IF t - c[j].start > TTL THEN [cache |-> RemoveAt(c, j), value |-> Undefined]
  ELSE [cache |-> c, value |-> c[j].value]

\* cache.get(k): a fresh entry becomes the most recently used and its value
\* is returned; a stale entry is deleted and undefined is returned
LRUGet(c, k, t) ==
  LET j == IndexOf(c, k) IN
  IF j = 0 THEN [cache |-> c, value |-> Undefined]
  ELSE IF IsStale(c[j], t) THEN [cache |-> RemoveAt(c, j), value |-> Undefined]
  ELSE [cache |-> RemoveAt(c, j) \o <<c[j]>>, value |-> c[j].value]

\* cache.set(k, v): an existing key is replaced, becomes the most recently
\* used and restarts its ttl; a new key evicts the least recently used entry
\* when the cache is full
LRUSet(c, k, v, t) ==
  LET j == IndexOf(c, k)
      e == [key |-> k, value |-> v, start |-> t]
  IN IF j # 0 THEN RemoveAt(c, j) \o <<e>>
     ELSE (IF Len(c) >= CacheMax THEN Tail(c) ELSE c) \o <<e>>

(* ------------------------- requests and replies ---------------------- *)

NoArgs == [query |-> <<>>, scrolls |-> NaN, login |-> FALSE]
NoReq == [q |-> Absent, scrolls |-> Absent, login |-> Absent]
NoResp == [status |-> 0, data |-> Undefined, error |-> ""]
NoPending == [kind |-> "none", value |-> Undefined, error |-> ""]
NoLast == [req |-> NoReq, resp |-> NoResp, wrote |-> FALSE]

\* res.json({ ok: true, data })
Ok(data) == [status |-> 200, data |-> data, error |-> ""]
\* res.status(400).json({ error: 'Missing q' })
BadRequest == [status |-> 400, data |-> Undefined, error |-> "Missing q"]
\* res.status(500).json({ ok: false, error: err.message })
Failed(msg) == [status |-> 500, data |-> Undefined, error |-> msg]

Returned(v) == [kind |-> "return", value |-> v, error |-> ""]
Thrown(msg) == [kind |-> "throw", value |-> Undefined, error |-> msg]

\* lines 155-161: the handler's reply to a settled pinterestSearch
Reply(c) == IF c.kind = "return" THEN Ok(c.value) ELSE Failed(c.error)

\* the request parameters the environment sends
QParams == {Absent, Str(<<" ">>), Str(<<"a">>)}
ScrollParams == {Str(<<"0">>)}
LoginParams == {Absent}
\* the list the page yields in the concurrent specification
OnePage == {<<Pin("A", "/pin/A/", 100), Pin("B", "/pin/B/", 50), Pin("A", "/pin/A", 100)>>}
\* ... in the sequential specification
SeqQParams == {Str(<<"a">>)}
SeqScrollParams == {Str(<<"0">>), Str(<<"2">>)}
SeqLoginParams == {Absent, Str(<<"1">>)}
\* ... and in the cache specification
CacheQParams == {Str(<<"a">>), Str(<<" ", "b">>), Str(<<"c">>), Str(<<"a", "|">>)}
CacheScrollParams == {Str(<<"x">>)}
\* the record lists the page may yield to the extraction step
PagePins ==
  {<<>>,
   <<Pin("A", "/pin/A/", 100), Pin("B", "/pin/B/", 50), Pin("A", "/pin/A", 100)>>}
\* the environments the process may be started in
Envs == [email : BOOLEAN, password : BOOLEAN]
NoCredentials == [email |-> FALSE, password |-> FALSE]

(* -------------------------------- Init ------------------------------- *)

ServerInit ==
  /\ browser = NoBrowser
  /\ launches = 0
  /\ contexts = {}
  /\ pages = {}
  /\ cache = <<>>
  /\ now = 0
  /\ started = 0
  /\ pc = [r \in Reqs |-> "idle"]
  /\ id = [r \in Reqs |-> 0]
  /\ req = [r \in Reqs |-> NoReq]
  /\ wrote = [r \in Reqs |-> FALSE]
  /\ args = [r \in Reqs |-> NoArgs]
  /\ cacheKey = [r \in Reqs |-> <<>>]
  /\ br = [r \in Reqs |-> NoBrowser]
  /\ i = [r \in Reqs |-> 0]
  /\ pending = [r \in Reqs |-> NoPending]
  /\ last = NoLast
  /\ lastSet = {}
  /\ ops = 0

Init ==
  /\ ServerInit
  /\ env = NoCredentials
  /\ fn = "server"
  /\ arg = <<>>
  /\ ret = <<>>

(* ------------------------------ actions ------------------------------ *)

\* the response is sent and the request's locals are dropped
Settle(r, rq, response) ==
  /\ last' = [req |-> rq, resp |-> response, wrote |-> wrote[r]]
  /\ pc' = [pc EXCEPT ![r] = "idle"]
  /\ id' = [id EXCEPT ![r] = 0]
  /\ req' = [req EXCEPT ![r] = NoReq]
  /\ wrote' = [wrote EXCEPT ![r] = FALSE]
  /\ args' = [args EXCEPT ![r] = NoArgs]
  /\ cacheKey' = [cacheKey EXCEPT ![r] = <<>>]
  /\ br' = [br EXCEPT ![r] = NoBrowser]
  /\ i' = [i EXCEPT ![r] = 0]
  /\ pending' = [pending EXCEPT ![r] = NoPending]

\* a step of the try block ends (returns or throws): the finally block
\* starts with page.close()
EnterFinally(r, completion) ==
  /\ pc' = [pc EXCEPT ![r] = "pageClose"]
  /\ pending' = [pending EXCEPT ![r] = completion]

\* the cache holds an entry, fresh or stale, for key k
Holds(c, k) == \E j \in 1..Len(c) : c[j].key = k

\* getBrowser up to its first await: launch when the handle is unset,
\* else return the stored handle, on which newContext is then called
GetBrowser(r) ==
  IF browser = NoBrowser
    THEN /\ pc' = [pc EXCEPT ![r] = "launch"]
         /\ br' = br
    ELSE /\ pc' = [pc EXCEPT ![r] = "newContext"]
         /\ br' = [br EXCEPT ![r] = browser]

\* GET /api/pinterest arrives: lines 147-155, pinterestSearch lines 64-68 and
\* getBrowser lines 57-59, up to the first await. cache.has reads the clock
\* at now and cache.get, when reached, at now + d: whether the two calls of
\* line 66 read one clock value (d = 0) or each its own is up to the cache
\* library (its clock caching, ttlResolution)
Arrive(r, q, s, l, d) ==
  /\ pc[r] = "idle"
  /\ started' = started + 1
  /\ UNCHANGED <<browser, launches, contexts, pages, env, fn, arg, ret>>
  /\ LET rq == [q |-> q, scrolls |-> s, login |-> l]
         query == QueryOf(q)
         scrolls == ScrollsOf(s)
         login == LoginOf(l)
         key == CacheKey(query, scrolls, login)
     IN IF query = <<>>
          THEN /\ Settle(r, rq, BadRequest)
               /\ d = 0
               /\ UNCHANGED <<cache, lastSet, ops, now>>
        ELSE IF LRUHas(cache, key, now)
          THEN /\ now' = now + d
               /\ cache' = LRUGet(cache, key, now + d).cache
               /\ ops' = ops + 1
               /\ lastSet' = {IF h.key = key THEN [h EXCEPT !.used = ops + 1] ELSE h :
                                h \in lastSet}
               /\ Settle(r, rq, Ok(LRUGet(cache, key, now + d).value))
        ELSE /\ d = 0
             /\ UNCHANGED now
             /\ req' = [req EXCEPT ![r] = rq]
             /\ id' = [id EXCEPT ![r] = started + 1]
             /\ args' = [args EXCEPT ![r] =
                           [query |-> query, scrolls |-> scrolls, login |-> login]]
             /\ cacheKey' = [cacheKey EXCEPT ![r] = key]
             /\ GetBrowser(r)
             /\ UNCHANGED <<cache, lastSet, ops, wrote, i, pending, last>>

\* a request during which the cache reads one clock value
Request(r, q, s, l) == Arrive(r, q, s, l, 0)

\* the launch promise stored before it settles, so that a rejected launch
\* stays in the shared variable
LaunchDone_KeepsRejected(r, ok) ==
  /\ pc[r] = "launch"
  /\ IF ok
       THEN /\ launches' = launches + 1
            /\ browser' = launches + 1
            /\ br' = [br EXCEPT ![r] = launches + 1]
            /\ pc' = [pc EXCEPT ![r] = "newContext"]
            /\ UNCHANGED <<id, req, wrote, args, cacheKey, i, pending, last>>
       ELSE /\ Settle(r, req[r], Failed("launch"))
            /\ browser' = 0 - 1
            /\ UNCHANGED launches
  /\ UNCHANGED <<contexts, pages, cache, now, env, started, lastSet, ops,
                 fn, arg, ret>>

\* chromium.launch() settles: line 59 stores the handle and getBrowser
\* returns it; a rejection leaves getBrowser and pinterestSearch by throwing
LaunchDone(r, ok) ==
  /\ pc[r] = "launch"
  /\ IF ok
       THEN /\ launches' = launches + 1
            /\ browser' = launches + 1
            /\ br' = [br EXCEPT ![r] = launches + 1]
            /\ pc' = [pc EXCEPT ![r] = "newContext"]
            /\ UNCHANGED <<id, req, wrote, args, cacheKey, i, pending, last>>
       ELSE /\ Settle(r, req[r], Failed("launch"))
            /\ UNCHANGED <<launches, browser>>
  /\ UNCHANGED <<contexts, pages, cache, now, env, started, lastSet, ops, fn, arg, ret>>

\* a context that is open taken in place of a new one
NewContextDone_Reuses(r, ok) ==
  /\ pc[r] = "newContext"
  /\ IF ok
       THEN /\ contexts' = IF contexts = {} THEN {id[r]} ELSE contexts
            /\ pc' = [pc EXCEPT ![r] = "newPage"]
            /\ UNCHANGED <<id, req, wrote, args, cacheKey, br, i, pending, last>>
       ELSE /\ Settle(r, req[r], Failed("newContext"))
            /\ UNCHANGED contexts
  /\ UNCHANGED <<browser, launches, pages, cache, now, env, started, lastSet, ops,
                 fn, arg, ret>>

\* browser.newContext() settles (line 69); outside the try block
NewContextDone(r, ok) ==
  /\ pc[r] = "newContext"
  /\ IF ok
       THEN /\ contexts' = contexts \cup {id[r]}
            /\ pc' = [pc EXCEPT ![r] = "newPage"]
            /\ UNCHANGED <<id, req, wrote, args, cacheKey, br, i, pending, last>>
       ELSE /\ Settle(r, req[r], Failed("newContext"))
            /\ UNCHANGED contexts
  /\ UNCHANGED <<browser, launches, pages, cache, now, env, started, lastSet, ops,
                 fn, arg, ret>>

\* the login phase entered without looking at the password
FirstStep_IgnoresPassword(r) ==
  IF args[r].login /\ env.email THEN "loginGoto" ELSE "goto"

\* the first await of the try block: the login page when login is asked for
\* and both credentials are configured (line 73), else the search page
FirstStep(r) ==
  IF args[r].login /\ env.email /\ env.password THEN "loginGoto" ELSE "goto"

\* context.newPage() settles (line 70); outside the try block
NewPageDone(r, ok) ==
  /\ pc[r] = "newPage"
  /\ IF ok
       THEN /\ pages' = pages \cup {id[r]}
            /\ pc' = [pc EXCEPT ![r] = FirstStep(r)]
            /\ UNCHANGED <<id, req, wrote, args, cacheKey, br, i, pending, last>>
       ELSE /\ Settle(r, req[r], Failed("newPage"))
            /\ UNCHANGED pages
  /\ UNCHANGED <<browser, launches, contexts, cache, now, env, started, lastSet, ops,
                 fn, arg, ret>>

\* the awaits of the login phase, lines 74-80, in order
LoginSteps == <<"loginGoto", "fillId", "fillPassword", "submit">>
LoginIndex(step) == CHOOSE j \in 1..Len(LoginSteps) : LoginSteps[j] = step

\* for (let i = 0; i < scrolls; i++): a comparison with NaN is false
LoopCond(n, scrolls) == ~scrolls.nan /\ n < scrolls.n

\* one await of the login phase settles; any rejection leaves the try block
LoginStepDone(r, ok) ==
  /\ pc[r] \in {LoginSteps[j] : j \in 1..Len(LoginSteps)}
  /\ IF ok
       THEN /\ pc' = [pc EXCEPT ![r] =
                        IF LoginIndex(pc[r]) < Len(LoginSteps)
                          THEN LoginSteps[LoginIndex(pc[r]) + 1]
                          ELSE "goto"]
            /\ UNCHANGED pending
       ELSE EnterFinally(r, Thrown(pc[r]))
  /\ UNCHANGED <<browser, launches, contexts, pages, cache, now, env, started,
                 id, req, wrote, args, cacheKey, br, i, last, lastSet, ops, fn, arg, ret>>

\* page.goto(url) settles (line 84); the scroll loop starts with i = 0
GotoDone(r, ok) ==
  /\ pc[r] = "goto"
  /\ IF ok
       THEN /\ i' = [i EXCEPT ![r] = 0]
            /\ pc' = [pc EXCEPT ![r] =
                        IF LoopCond(0, args[r].scrolls) THEN "scroll" ELSE "extract"]
            /\ UNCHANGED pending
       ELSE /\ EnterFinally(r, Thrown("goto"))
            /\ UNCHANGED i
  /\ UNCHANGED <<browser, launches, contexts, pages, cache, now, env, started,
                 id, req, wrote, args, cacheKey, br, last, lastSet, ops, fn, arg, ret>>

\* a scroll followed at once by the loop test, without the pause
ScrollDone_NoPause(r, ok) ==
  /\ pc[r] = "scroll"
  /\ IF ok
       THEN /\ i' = [i EXCEPT ![r] = i[r] + 1]
            /\ pc' = [pc EXCEPT ![r] =
                        IF LoopCond(i[r] + 1, args[r].scrolls) THEN "scroll"
                        ELSE "extract"]
            /\ UNCHANGED pending
       ELSE /\ EnterFinally(r, Thrown("scroll"))
            /\ UNCHANGED i
  /\ UNCHANGED <<browser, launches, contexts, pages, cache, now, env, started,
                 id, req, wrote, args, cacheKey, br, last, lastSet, ops, fn, arg, ret>>

\* page.evaluate(scrollTo) settles (line 88)
ScrollDone(r, ok) ==
  /\ pc[r] = "scroll"
  /\ IF ok
       THEN /\ pc' = [pc EXCEPT ![r] = "wait"]
            /\ UNCHANGED pending
       ELSE EnterFinally(r, Thrown("scroll"))
  /\ UNCHANGED <<browser, launches, contexts, pages, cache, now, env, started,
                 id, req, wrote, args, cacheKey, br, i, last, lastSet, ops, fn, arg, ret>>

\* page.waitForTimeout settles (line 89); i++ and the loop test
WaitDone(r, ok) ==
  /\ pc[r] = "wait"
  /\ IF ok
       THEN /\ i' = [i EXCEPT ![r] = i[r] + 1]
            /\ pc' = [pc EXCEPT ![r] =
                        IF LoopCond(i[r] + 1, args[r].scrolls) THEN "scroll"
                        ELSE "extract"]
            /\ UNCHANGED pending
       ELSE /\ EnterFinally(r, Thrown("wait"))
            /\ UNCHANGED i
  /\ UNCHANGED <<browser, launches, contexts, pages, cache, now, env, started,
                 id, req, wrote, args, cacheKey, br, last, lastSet, ops, fn, arg, ret>>

\* cache.set reached also when the extraction rejected
ExtractDone_SetsOnFailure(r, ok, pinList) ==
  /\ pc[r] = "extract"
  /\ LET out == Assemble(args[r].query, IF ok THEN pinList ELSE <<>>) IN
     /\ cache' = LRUSet(cache, cacheKey[r], out, now)
     /\ ops' = ops + 1
     /\ lastSet' =
          {h \in lastSet : h.key # cacheKey[r]}
            \cup {[key |-> cacheKey[r], value |-> out, at |-> now, used |-> ops + 1]}
     /\ wrote' = [wrote EXCEPT ![r] = TRUE]
     /\ EnterFinally(r, IF ok THEN Returned(out) ELSE Thrown("extract"))
  /\ UNCHANGED <<browser, launches, contexts, pages, now, env, started, id, req,
                 args, cacheKey, br, i, last, fn, arg, ret>>

\* the extraction page.evaluate settles (lines 92-126); on success lines
\* 128-140 run: dedupe, score, assemble, cache.set, return; then finally
ExtractDone(r, ok, pinList) ==
  /\ pc[r] = "extract"
  /\ IF ok
       THEN LET out == Assemble(args[r].query, pinList) IN
            /\ cache' = LRUSet(cache, cacheKey[r], out, now)
            /\ ops' = ops + 1
            /\ lastSet' =
                 {h \in lastSet : h.key # cacheKey[r]}
                   \cup {[key |-> cacheKey[r], value |-> out, at |-> now,
                           used |-> ops + 1]}
            /\ wrote' = [wrote EXCEPT ![r] = TRUE]
            /\ EnterFinally(r, Returned(out))
       ELSE /\ EnterFinally(r, Thrown("extract"))
            /\ UNCHANGED <<cache, lastSet, ops, wrote>>
  /\ UNCHANGED <<browser, launches, contexts, pages, now, env, started, id, req,
                 args, cacheKey, br, i, last, fn, arg, ret>>

\* finally: await page.close() settles (line 142); when it rejects the
\* finally block is left by that error and context.close() is not reached
PageCloseDone(r, ok) ==
  /\ pc[r] = "pageClose"
  /\ IF ok
       THEN /\ pages' = pages \ {id[r]}
            /\ pc' = [pc EXCEPT ![r] = "contextClose"]
            /\ UNCHANGED <<id, req, wrote, args, cacheKey, br, i, pending, last>>
       ELSE /\ Settle(r, req[r], Failed("pageClose"))
            /\ UNCHANGED pages
  /\ UNCHANGED <<browser, launches, contexts, cache, now, env, started, lastSet, ops,
                 fn, arg, ret>>

\* finally: await context.close() settles (line 143); pinterestSearch then
\* settles with the try block's completion, or with the close error
ContextCloseDone(r, ok) ==
  /\ pc[r] = "contextClose"
  /\ IF ok
       THEN /\ contexts' = contexts \ {id[r]}
            /\ Settle(r, req[r], Reply(pending[r]))
       ELSE /\ Settle(r, req[r], Failed("contextClose"))
            /\ UNCHANGED contexts
  /\ UNCHANGED <<browser, launches, pages, cache, now, env, started, lastSet, ops,
                 fn, arg, ret>>

\* time passes
Tick ==
  /\ now < MaxTime
  /\ now' = now + 1
  /\ UNCHANGED <<browser, launches, contexts, pages, cache, env, started, pc, id,
                 req, wrote, args, cacheKey, br, i, pending, last, lastSet, ops,
                 fn, arg, ret>>

\* any number of requests in flight, no login, the clock standing still
Next ==
  \/ /\ started < MaxReqs
     /\ \E r \in Reqs, q \in QParams, s \in ScrollParams, l \in LoginParams :
          Request(r, q, s, l)
  \/ \E r \in Reqs, ok \in BOOLEAN :
       \/ LaunchDone(r, ok)
       \/ NewContextDone(r, ok)
       \/ NewPageDone(r, ok)
       \/ GotoDone(r, ok)
       \/ ScrollDone(r, ok)
       \/ WaitDone(r, ok)
       \/ \E pinList \in OnePage : ExtractDone(r, ok, pinList)
       \/ PageCloseDone(r, ok)
       \/ ContextCloseDone(r, ok)

Spec == Init /\ [][Next]_vars

\* one request at a time, with the login phase, every await free to fail
InitSeq ==
  /\ ServerInit
  /\ env \in Envs
  /\ fn = "server"
  /\ arg = <<>>
  /\ ret = <<>>

NextSeq ==
  \/ /\ started < MaxReqs
     /\ \E q \in SeqQParams, s \in SeqScrollParams, l \in SeqLoginParams :
          Request(1, q, s, l)
  \/ \E ok \in BOOLEAN :
       \/ LaunchDone(1, ok)
       \/ NewContextDone(1, ok)
       \/ NewPageDone(1, ok)
       \/ LoginStepDone(1, ok)
       \/ GotoDone(1, ok)
       \/ ScrollDone(1, ok)
       \/ WaitDone(1, ok)
       \/ \E pinList \in PagePins : ExtractDone(1, ok, pinList)
       \/ PageCloseDone(1, ok)
       \/ ContextCloseDone(1, ok)

SpecSeq == InitSeq /\ [][NextSeq]_vars

\* one request at a time over several keys with the clock running; the
\* browser steps succeed
NextCache ==
  \/ /\ started < MaxFetches
     /\ \E q \in CacheQParams, s \in CacheScrollParams, l \in LoginParams :
          Request(1, q, s, l)
  \/ LaunchDone(1, TRUE)
  \/ NewContextDone(1, TRUE)
  \/ NewPageDone(1, TRUE)
  \/ GotoDone(1, TRUE)
  \/ \E pinList \in PagePins : ExtractDone(1, TRUE, pinList)
  \/ PageCloseDone(1, TRUE)
  \/ ContextCloseDone(1, TRUE)
  \/ Tick

SpecCache == Init /\ [][NextCache]_vars

\* any number of requests in flight for one key, the pages yielding different
\* lists, the extraction free to fail
NextConc ==
  \/ /\ started < MaxReqs
     /\ \E r \in Reqs, q \in SeqQParams, s \in ScrollParams, l \in LoginParams :
          Request(r, q, s, l)
  \/ \E r \in Reqs :
       \/ LaunchDone(r, TRUE)
       \/ NewContextDone(r, TRUE)
       \/ NewPageDone(r, TRUE)
       \/ GotoDone(r, TRUE)
       \/ ScrollDone(r, TRUE)
       \/ WaitDone(r, TRUE)
       \/ \E ok \in BOOLEAN, pinList \in PagePins : ExtractDone(r, ok, pinList)
       \/ PageCloseDone(r, TRUE)
       \/ ContextCloseDone(r, TRUE)

SpecConc == Init /\ [][NextConc]_vars

\* one request at a time for one key, the clock running, also between the
\* cache.has and the cache.get of one request
NextRace ==
  \/ /\ started < MaxFetches
     /\ \E q \in SeqQParams, s \in SeqScrollParams, l \in LoginParams, d \in 0..MaxGap :
          /\ now + d <= MaxTime
          /\ Arrive(1, q, s, l, d)
  \/ LaunchDone(1, TRUE)
  \/ NewContextDone(1, TRUE)
  \/ NewPageDone(1, TRUE)
  \/ GotoDone(1, TRUE)
  \/ ScrollDone(1, TRUE)
  \/ WaitDone(1, TRUE)
  \/ \E pinList \in PagePins : ExtractDone(1, TRUE, pinList)
  \/ PageCloseDone(1, TRUE)
  \/ ContextCloseDone(1, TRUE)
  \/ Tick

SpecRace == Init /\ [][NextRace]_vars

(* ---------------- the handler's parameter parsing, alone -------------- *)

\* all texts of at most n characters over the alphabet S
Texts(S, n) == UNION {[1..k -> S] : k \in 0..n}

ParamChars == {"0", "1", "5", "9", "-", " ", "x"}
RawScrolls == {Absent} \cup {Str(t) : t \in Texts(ParamChars, MaxStrLen)}

InitParams ==
  /\ ServerInit
  /\ env = NoCredentials
  /\ fn = "params"
  /\ arg \in [q : {Str(<<"a">>)}, scrolls : RawScrolls, login : {Absent}]
  /\ ret = <<>>

\* lines 149-155 and 65: what the handler passes to pinterestSearch, and the
\* cache key built from it
ParseParams ==
  /\ fn = "params"
  /\ fn' = "params.done"
  /\ ret' = [query |-> QueryOf(arg.q),
             scrolls |-> ScrollsOf(arg.scrolls),
             login |-> LoginOf(arg.login),
             cacheKey |-> CacheKey(QueryOf(arg.q), ScrollsOf(arg.scrolls),
                                   LoginOf(arg.login))]
  /\ UNCHANGED <<browser, launches, contexts, pages, cache, now, env, started, pc,
                 id, req, wrote, args, cacheKey, br, i, pending, last, lastSet,
                 ops, arg>>

NextParams == ParseParams

SpecParams == InitParams /\ [][NextParams]_vars

(* ----------------------- the deduplication, alone -------------------- *)

PinPool ==
  {Pin("A", "/pin/A/", 100), Pin("A", "/pin/A", 7), Pin("B", "/pin/B/", 50)}

InitDedupe ==
  /\ ServerInit
  /\ env = NoCredentials
  /\ fn = "dedupe"
  /\ arg \in Texts(PinPool, MaxPins)
  /\ ret = <<>>

\* line 128 applied to the extracted list
ApplyDedupe ==
  /\ fn = "dedupe"
  /\ fn' = "dedupe.once"
  /\ ret' = Dedupe(arg)
  /\ UNCHANGED <<browser, launches, contexts, pages, cache, now, env, started, pc,
                 id, req, wrote, args, cacheKey, br, i, pending, last, lastSet,
                 ops, arg>>

\* line 128 applied to its own result
ApplyDedupeAgain ==
  /\ fn = "dedupe.once"
  /\ fn' = "dedupe.twice"
  /\ arg' = ret
  /\ ret' = Dedupe(ret)
  /\ UNCHANGED <<browser, launches, contexts, pages, cache, now, env, started, pc,
                 id, req, wrote, args, cacheKey, br, i, pending, last, lastSet,
                 ops>>

NextDedupe == ApplyDedupe \/ ApplyDedupeAgain

SpecDedupe == InitDedupe /\ [][NextDedupe]_vars

(* ---------------------------- computeKD, alone ----------------------- *)

\* records by saves: none, few, many, and more than SaveScale
KDPool ==
  {Pin("A", "/pin/A/", 100), Pin("B", "/pin/B/", 50), Pin("C", "/pin/C/", 0),
   Pin("D", "/pin/D/", 600)}
\* TopN copies of one record
Repeat(p) == [j \in 1..TopN |-> p]
\* short lists, and lists of more than TopN records
KDLists ==
  Texts(KDPool, MaxPins)
    \cup {Repeat(p) \o t : p \in KDPool, t \in Texts(KDPool, MaxTail)}
LoadedCounts == {0, 2, 999, 1000, 2000}

InitKD ==
  /\ ServerInit
  /\ env = NoCredentials
  /\ fn = "kd"
  /\ arg \in [pins : KDLists, loadedCount : LoadedCounts]
  /\ ret = 0

\* computeKD(pins, loadedCount)
ApplyKD ==
  /\ fn = "kd"
  /\ fn' = "kd.done"
  /\ ret' = computeKD(arg.pins, arg.loadedCount)
  /\ UNCHANGED <<browser, launches, contexts, pages, cache, now, env, started, pc,
                 id, req, wrote, args, cacheKey, br, i, pending, last, lastSet,
                 ops, arg>>

\* computeKD called again with the records after the first TopN cut off
ApplyKDTop ==
  /\ fn = "kd.done"
  /\ fn' = "kd.top"
  /\ ret' = computeKD(SubSeq(arg.pins, 1, Min(TopN, Len(arg.pins))), arg.loadedCount)
  /\ UNCHANGED <<browser, launches, contexts, pages, cache, now, env, started, pc,
                 id, req, wrote, args, cacheKey, br, i, pending, last, lastSet,
                 ops, arg>>

NextKD == ApplyKD \/ ApplyKDTop

SpecKD == InitKD /\ [][NextKD]_vars

(* ---------------------------- the cache key, alone ------------------- *)

\* query texts with the delimiter and a digit in them
KeyChars == {"a", "|", "1"}
KeyScrolls == {Num(1), Num(11)}
KeyTuples == [query : Texts(KeyChars, MaxStrLen), scrolls : KeyScrolls, login : BOOLEAN]

InitKeys ==
  /\ ServerInit
  /\ env = NoCredentials
  /\ fn = "keys"
  /\ arg \in KeyTuples \X KeyTuples
  /\ ret = <<>>

\* line 65 for two calls of pinterestSearch
BuildKeys ==
  /\ fn = "keys"
  /\ fn' = "keys.done"
  /\ ret' = <<CacheKey(arg[1].query, arg[1].scrolls, arg[1].login),
              CacheKey(arg[2].query, arg[2].scrolls, arg[2].login)>>
  /\ UNCHANGED <<browser, launches, contexts, pages, cache, now, env, started, pc,
                 id, req, wrote, args, cacheKey, br, i, pending, last, lastSet,
                 ops, arg>>

NextKeys == BuildKeys

SpecKeys == InitKeys /\ [][NextKeys]_vars

(* ----------------------- the result assembly, alone ------------------ *)

\* records with a repeated pinId and with saves on both sides of the
\* low-competition threshold
AsmPool ==
  {Pin("A", "/pin/A/", 100), Pin("A", "/pin/A", 7), Pin("B", "/pin/B/", 600),
   Pin("C", "/pin/C/", 600)}
\* n records with the pinIds 1..n, each with s saves
Many(n, s) == [j \in 1..n |-> Pin(j, "/pin/", s)]
\* lists around SampleMax distinct records, without and with a repeated pinId
AsmLists ==
  Texts(AsmPool, MaxPins)
    \cup {Many(n, s) \o d : n \in (SampleMax - 1)..(SampleMax + MaxTail),
                             s \in {0, 600},
                             d \in {<<>>, <<Pin(1, "/pin/1", 7)>>,
                                    <<Pin(2, "/pin/2", 7), Pin(1, "/pin/1", 7)>>}}

InitAssemble ==
  /\ ServerInit
  /\ env = NoCredentials
  /\ fn = "assemble"
  /\ arg \in AsmLists
  /\ ret = <<>>

\* lines 128-137 applied to the list the extraction returned
ApplyAssemble ==
  /\ fn = "assemble"
  /\ fn' = "assemble.done"
  /\ ret' = Assemble(<<"a">>, arg)
  /\ UNCHANGED <<browser, launches, contexts, pages, cache, now, env, started, pc,
                 id, req, wrote, args, cacheKey, br, i, pending, last, lastSet,
                 ops, arg>>

NextAssemble == ApplyAssemble

SpecAssemble == InitAssemble /\ [][NextAssemble]_vars

(* ------------------------------- claims ------------------------------ *)

\* a request arrives in this step
Arrival == started' = started + 1
\* the slot whose request is suspended or resumed in this step
Stepped == CHOOSE r \in Reqs : pc'[r] # pc[r]
\* the parameters of the request that arrives in this step: it is either
\* answered at once (no slot moves) or suspended in a slot
ArrivedReq == IF pc' = pc THEN last'.req ELSE req'[Stepped]
\* a missing q, or one of white space only
IsBlank(q) == ~q.present \/ \A j \in 1..Len(q.text) : q.text[j] = " "
\* the cache key of a request, from its parameters
KeyOfReq(rq) == CacheKey(QueryOf(rq.q), ScrollsOf(rq.scrolls), LoginOf(rq.login))
Keys(c) == {c[j].key : j \in 1..Len(c)}
InFlight == {r \in Reqs : pc[r] # "idle"}
CleanupErrors == {"pageClose", "contextClose"}
FinallySteps == {"pageClose", "contextClose"}

\* C1 (as claimed): every context and page a call of pinterestSearch acquired
\* is closed when the call completes; when no fetch is in flight no context
\* and no page is open. Violated: a rejected context.newPage() is outside the
\* try block, and a rejected page.close() skips context.close().
C1_AllReleased ==
  /\ contexts \cup pages \subseteq {id[r] : r \in InFlight}
  /\ InFlight = {} => contexts = {} /\ pages = {}

\* C2 (as claimed): under any interleaving of callers the browser is launched
\* successfully at most once and every caller receives the same handle.
\* Violated: two requests that both find the variable unset both launch.
C2_SingleLaunch ==
  /\ launches <= 1
  /\ \A r1, r2 \in Reqs : br[r1] # NoBrowser /\ br[r2] # NoBrowser => br[r1] = br[r2]

\* C3: a request whose key has an entry in the cache that is not expired is
\* answered at once with the stored Search Result and without any browser
\* interaction: no launch, no context, no page, no suspension at an await.
C3_HitNoBrowser ==
  [][Arrival =>
       \A j \in 1..Len(cache) :
         (cache[j].key = KeyOfReq(ArrivedReq) /\ now - cache[j].start < TTL)
           => /\ pc' = pc
              /\ last'.resp = Ok(cache[j].value)
              /\ UNCHANGED <<browser, launches, contexts, pages, br>>]_vars

\* a second request for a key was answered from the cache: one launch, one
\* cache.set, and a response that did not write
C3_Witness ==
  /\ last.resp.status = 200
  /\ ~last.wrote
  /\ last.resp.data.loadedPins = 2
  /\ launches = 1
  /\ contexts = {}
  /\ Cardinality(lastSet) = 1

\* C4 (as claimed): a call of pinterestSearch that ends by raising an error,
\* whatever step raised it, cleanup included, has not written the cache.
\* Violated: cache.set runs before the finally block, so a rejected
\* page.close() or context.close() fails a call that has already written.
C4_NoWriteOnError == last.resp.status = 500 => ~last.wrote

\* C4 (amended): a call that ends by raising an error of the launch, the
\* context or page creation, the login, the navigation, a scroll or the
\* extraction has not written the cache; a call that has written and still
\* fails fails with the error of page.close() or context.close(); and while a
\* call that has written is in flight its try block has returned.
C4_WriteOnlyAfterScrape ==
  /\ last.wrote =>
       \/ last.resp.status = 200
       \/ last.resp.status = 500 /\ last.resp.error \in CleanupErrors
  /\ \A r \in Reqs : wrote[r] =>
       /\ pc[r] \in FinallySteps
       /\ pending[r].kind = "return"
       /\ pending[r].value \in {h.value : h \in {g \in lastSet : g.key = cacheKey[r]}}

\* a call failed with the error of page.close() after it had written its entry
C4_Witness ==
  /\ last.resp = Failed("pageClose")
  /\ last.wrote
  /\ Len(cache) = 1

\* the key least recently used (set, or read by a get that hit) among the
\* recorded sets in held
LeastRecent(held) == (CHOOSE h \in held : \A g \in held : h.used <= g.used).key
\* the recorded sets of the keys the cache holds
Held == {h \in lastSet : Holds(cache, h.key)}

NotExpired(h) == now - h.at <= TTL

\* a cache.set of a key the full cache does not hold happens in this step
SetsNewKeyWhenFull(r) ==
  /\ pc[r] = "extract"
  /\ wrote'[r]
  /\ ~Holds(cache, cacheKey[r])
  /\ Len(cache) = CacheMax

C6_TtlFromInsertion ==
  [][Arrival /\ ~IsBlank(ArrivedReq.q) =>
       /\ \A h \in lastSet :
            h.key = KeyOfReq(ArrivedReq) =>
              /\ (now - h.at < TTL /\ Holds(cache, h.key))
                   => pc' = pc /\ last'.resp = Ok(h.value)
              /\ now - h.at > TTL
                   => pc' # pc /\ pc'[Stepped] \in {"launch", "newContext"}
       /\ (\A h \in lastSet : h.key # KeyOfReq(ArrivedReq))
            => pc' # pc /\ pc'[Stepped] \in {"launch", "newContext"}]_vars

\* a request is on the miss path for a key whose expired entry the cache
\* still holds
C6_Witness ==
  \E r \in Reqs :
    /\ pc[r] = "newContext"
    /\ \E h \in lastSet :
         /\ h.key = cacheKey[r]
         /\ Holds(cache, h.key)
         /\ now - h.at > TTL

\* C8: a request whose q is missing or blank is answered with HTTP 400 at
\* once and changes nothing: the cache, the browser variable, the launches,
\* the open contexts and pages stay as they were, and no request in flight
\* has a blank query.
C8_BlankQuery ==
  [][/\ \A r \in Reqs : pc'[r] # "idle" => ~IsBlank(req'[r].q)
     /\ (Arrival /\ IsBlank(ArrivedReq.q)) =>
          /\ pc' = pc
          /\ last'.resp = BadRequest
          /\ UNCHANGED <<cache, lastSet, ops, browser, launches, contexts, pages>>]_vars

\* a q of one space was answered with 400 after an earlier request had
\* launched the browser and filled the cache
C8_Witness ==
  /\ last.resp = BadRequest
  /\ last.req.q = Str(<<" ">>)
  /\ launches = 1
  /\ Len(cache) = 1

\* C9: a launch that fails fails the request with the launch error and leaves
\* the shared browser variable as it was, so that no failed handle is ever
\* stored; a call of getBrowser that finds the variable unset launches.
C9_FailedLaunchNotCached ==
  [][/\ browser' \in 0..launches'
     /\ \A r \in Reqs :
          /\ (pc[r] = "launch" /\ pc'[r] = "idle") =>
               /\ browser' = browser
               /\ launches' = launches
               /\ last'.resp = Failed("launch")
               /\ last'.req = req[r]
          /\ (Arrival /\ pc'[r] # pc[r] /\ browser = NoBrowser) => pc'[r] = "launch"
          /\ (Arrival /\ pc'[r] # pc[r] /\ browser # NoBrowser) =>
               pc'[r] = "newContext" /\ br'[r] = browser]_vars

\* after a request failed with the launch error the next request is launching
\* again, the variable being still unset
C9_Witness ==
  /\ last.resp = Failed("launch")
  /\ browser = NoBrowser
  /\ launches = 0
  /\ pc[1] = "launch"


\* C7 (as claimed): for every value of the scrolls parameter, the scrollCount
\* passed to pinterestSearch and used in the cache key is an integer in
\* [1,10]. Violated: a text parseInt cannot read gives NaN, which Math.max
\* and Math.min pass on.
C7_ScrollsClamped ==
  fn = "params.done" =>
    /\ ~ret.scrolls.nan
    /\ ret.scrolls.n \in MinScrolls..MaxScrolls
    /\ ret.cacheKey = ret.query \o <<"|">> \o NatStr(ret.scrolls.n) \o <<"|">>
                        \o BoolStr(ret.login)

\* the indices of arr that hold the first occurrence of their pinId
FirstOccurrences(arr) ==
  {j \in 1..Len(arr) : \A k \in 1..(j - 1) : arr[k].pinId # arr[j].pinId}

\* the n-th smallest member of the set of indices S
Nth(S, n) == CHOOSE j \in S : Cardinality({k \in S : k <= j}) = n

DedupeContract(input, output) ==
  /\ \A a, b \in 1..Len(output) : a # b => output[a].pinId # output[b].pinId
  /\ Len(output) = Cardinality(FirstOccurrences(input))
  /\ \A n \in 1..Len(output) : output[n] = input[Nth(FirstOccurrences(input), n)]
  /\ input = <<>> => output = <<>>

\* C10: the deduplication yields a list with pairwise distinct pinIds, which is
\* the subsequence of the input made of the first occurrence of each pinId in
\* input order; deduplicating its result again changes nothing; the empty
\* list gives the empty list.
C10_Dedupe ==
  /\ fn \in {"dedupe.once", "dedupe.twice"} => DedupeContract(arg, ret)
  /\ fn = "dedupe.twice" => ret = arg

\* a list with a repeated pinId whose two records differ has been deduplicated
\* to fewer records, and deduplicated again
C10_Witness ==
  /\ fn = "dedupe.twice"
  /\ Len(ret) = 2
  /\ ret[1] = Pin("A", "/pin/A", 7)
  /\ ret[2].pinId = "B"


\* C11: for every record list with non-negative integer save counts and every
\* loadedCount >= 0, computeKD returns an integer from 0 to 100; for the
\* empty list and loadedCount 0 it returns 0.
C11_ScoreRange ==
  fn \in {"kd.done", "kd.top"} =>
    /\ ret \in 0..100
    /\ (arg.pins = <<>> /\ arg.loadedCount = 0) => ret = 0

\* both terms at their caps: more than VolumeScale loaded and an average of
\* more than SaveScale saves give exactly 100
C11_Witness ==
  /\ fn = "kd.done"
  /\ arg.loadedCount > VolumeScale
  /\ arg.pins # <<>>
  /\ \A j \in 1..Len(arg.pins) : arg.pins[j].saves > SaveScale
  /\ ret = 100

\* the awaits inside the try block
TrySteps ==
  {LoginSteps[j] : j \in 1..Len(LoginSteps)} \cup {"goto", "scroll", "wait", "extract"}

\* C12 (as claimed): an error raised by a step of the try block (navigation,
\* fill, scroll, pause, extraction) ends the try block at once, without a
\* retry of the step, and is the error the request is answered with as HTTP
\* 500, also when closing the page or the context fails afterwards; and after
\* page.close() has settled, rejected or not, context.close() is awaited.
\* Violated: an error of page.close() or context.close() replaces the error of
\* the try block, and a rejected page.close() leaves the finally block before
\* context.close().
C12_ErrorsPropagate ==
  [][\A r \in Reqs :
       /\ (pc[r] \in TrySteps /\ pc'[r] = "pageClose" /\ pending'[r].kind = "throw")
            => pending'[r] = Thrown(pc[r])
       /\ (pc[r] \in FinallySteps /\ pending[r].kind = "throw" /\ pc'[r] = "idle")
            => last'.resp = Failed(pending[r].error)
       /\ (pc[r] = "pageClose" /\ pc'[r] # "pageClose")
            => pc'[r] = "contextClose"]_vars

\* the fields of a Search Result
ResultFields == {"query", "loadedPins", "keywordDifficulty", "lowCompetition", "sample"}

C14_KeyInjective ==
  fn = "keys.done" => (ret[1] = ret[2] <=> arg[1] = arg[2])

\* the query a|1 and the query a with scrolls 1 give keys that both start with
\* a|1| and are different
C14_Witness ==
  /\ fn = "keys.done"
  /\ arg[1].query = <<"a", "|", "1">>
  /\ arg[2].query = <<"a">>
  /\ arg[2].scrolls = Num(1)
  /\ SubSeq(ret[1], 1, 4) = SubSeq(ret[2], 1, 4)
  /\ ret[1] # ret[2]

\* the order of the awaits of the try block: <<a, b>> when b is awaited next
\* after a has resolved
StepOrder ==
  {<<"newPage", "loginGoto">>, <<"newPage", "goto">>,
   <<"loginGoto", "fillId">>, <<"fillId", "fillPassword">>,
   <<"fillPassword", "submit">>, <<"submit", "goto">>,
   <<"goto", "scroll">>, <<"goto", "extract">>,
   <<"scroll", "wait">>, <<"wait", "scroll">>, <<"wait", "extract">>}

\* C15: within one fetch that misses the cache the awaits follow one another
\* in the order login (optional), search navigation, scroll loop, extraction;
\* every scroll is followed by its pause, a scroll starts only while fewer than
\* scrollCount pauses have completed, the extraction starts only when exactly
\* scrollCount scrolls and pauses have completed; the result is assembled and
\* written to the cache in the step that completes the extraction, and nothing
\* else makes the try block return.
C15_StepOrder ==
  [][\A r \in Reqs :
       pc'[r] # pc[r] =>
         /\ pc'[r] \in TrySteps => <<pc[r], pc'[r]>> \in StepOrder
         /\ pc'[r] = "scroll" =>
              /\ i'[r] < args[r].scrolls.n
              /\ i'[r] = IF pc[r] = "goto" THEN 0 ELSE i[r] + 1
         /\ pc[r] = "scroll" => i'[r] = i[r]
         /\ pc'[r] = "extract" =>
              /\ i'[r] = args[r].scrolls.n
              /\ i'[r] = IF pc[r] = "goto" THEN 0 ELSE i[r] + 1
         /\ (wrote'[r] /\ ~wrote[r]) =>
              /\ pc[r] = "extract"
              /\ pc'[r] = "pageClose"
              /\ cache'[Len(cache')] =
                   [key |-> cacheKey[r], value |-> pending'[r].value, start |-> now]
         /\ (pending'[r].kind = "return" /\ pending[r].kind # "return") =>
              /\ pc[r] = "extract"
              /\ wrote'[r]
              /\ pending'[r].value.query = args[r].query]_vars

\* a fetch that logged in and was asked for two scrolls is about to extract,
\* two pauses having completed
C15_Witness ==
  /\ pc[1] = "extract"
  /\ args[1].scrolls = Num(2)
  /\ i[1] = 2
  /\ args[1].login
  /\ env.email /\ env.password

\* the records of arr that are the first with their pinId, in the order of arr
UniqueRecords(arr) ==
  [n \in 1..Cardinality(FirstOccurrences(arr)) |-> arr[Nth(FirstOccurrences(arr), n)]]

\* C16: in the Search Result assembled from an extracted list, loadedPins is
\* the number of distinct pinIds of the list; sample is the first
\* min(50, loadedPins) of the first-seen records, in order, with pairwise
\* distinct pinIds; keywordDifficulty is computeKD of the first-seen records
\* and loadedPins; lowCompetition is true exactly when keywordDifficulty <= 35.
C16_ResultShape ==
  fn = "assemble.done" =>
    /\ ret.loadedPins = Cardinality({arg[j].pinId : j \in 1..Len(arg)})
    /\ Len(ret.sample) = Min(SampleMax, ret.loadedPins)
    /\ \A n \in 1..Len(ret.sample) : ret.sample[n] = UniqueRecords(arg)[n]
    /\ \A a, b \in 1..Len(ret.sample) :
         a # b => ret.sample[a].pinId # ret.sample[b].pinId
    /\ ret.keywordDifficulty = computeKD(UniqueRecords(arg), ret.loadedPins)
    /\ ret.lowCompetition <=> ret.keywordDifficulty <= LowCompetitionMax

\* more than 50 distinct records followed by a repeated one: 50 in the sample,
\* the repeated one not counted
C16_Witness ==
  /\ fn = "assemble.done"
  /\ ret.loadedPins > SampleMax
  /\ Len(arg) > ret.loadedPins
  /\ Len(ret.sample) = SampleMax
  /\ ~ret.lowCompetition

\* score is 100 * (0.6 * min(1, loaded / 1000) + 0.4 * min(1, average / 500))
\* rounded to the nearest integer, halves upwards, where average is the mean
\* of saves over saves (0 for none): with V = min(1000, loaded),
\* P = min(500 * n, sum) and n the number of saves the value is
\* (6 * V * n + 8 * P) / (100 * n)
IsScore(score, saves, loaded) ==
  LET n == IF saves = <<>> THEN 1 ELSE Len(saves)
      V == Min(VolumeScale, loaded)
      P == Min(SaveScale * n, SumSaves(saves))
      N == 6 * V * n + 8 * P
      D == 100 * n
  IN /\ 2 * score * D - D <= 2 * N
     /\ 2 * N < 2 * score * D + D

\* C17: computeKD(pins, loadedCount) is
\* round(100 * (0.6 * min(1, loadedCount / 1000) + 0.4 * min(1, avg / 500)))
\* with avg the mean of saves over the first min(20, n) records, 0 when there
\* are none; cutting the records after the 20th off leaves the score as it
\* was; for [A(100), B(50)] and loadedCount 2 the score is 6.
C17_ScoreFormula ==
  [][/\ fn' \in {"kd.done", "kd.top"} =>
          /\ IsScore(ret', SubSeq(arg'.pins, 1, Min(20, Len(arg'.pins))), arg'.loadedCount)
          /\ (/\ Len(arg'.pins) = 2
              /\ arg'.pins[1].saves = 100
              /\ arg'.pins[2].saves = 50
              /\ arg'.loadedCount = 2) => ret' = 6
     /\ (fn = "kd.done" /\ fn' = "kd.top") => ret' = ret]_vars

\* twenty records of 100 saves followed by two of 600 have been scored with
\* and without the two: 8 both times
C17_Witness ==
  /\ fn = "kd.top"
  /\ Len(arg.pins) = 22
  /\ \A j \in 1..20 : arg.pins[j].saves = 100
  /\ \A j \in 21..22 : arg.pins[j].saves = 600
  /\ arg.loadedCount = 0
  /\ ret = 8

\* the entry the cache holds for key k
EntryOf(c, k) == c[IndexOf(c, k)]

\* C18: under any interleaving of fetches, the fetches in flight are distinct
\* calls; a fetch that is in its try block has a context and a page of its
\* own open; a step of a fetch opens and closes no context and no page but
\* its own, and opens its context and its page once; a request that misses
\* starts a scrape of its own, whatever is in flight (no single-flight); a
\* fetch whose scrape succeeds writes its own result; and every value the
\* cache holds is a whole Search Result, the one written by the latest
\* cache.set for its key.
C18_IndependentFetches ==
  [][/\ \A r1, r2 \in Reqs :
          (r1 # r2 /\ pc'[r1] # "idle" /\ pc'[r2] # "idle") => id'[r1] # id'[r2]
     /\ \A r \in Reqs :
          /\ pc'[r] \in TrySteps => id'[r] \in contexts' /\ id'[r] \in pages'
          /\ pc'[r] # pc[r] =>
               /\ (contexts' \ contexts) \cup (contexts \ contexts') \subseteq {id[r]}
               /\ (pages' \ pages) \cup (pages \ pages') \subseteq {id[r]}
          /\ (pc[r] = "newContext" /\ pc'[r] = "newPage") =>
               contexts' = contexts \cup {id[r]} /\ id[r] \notin contexts
          /\ (pc[r] = "newPage" /\ pc'[r] \in TrySteps) =>
               pages' = pages \cup {id[r]} /\ id[r] \notin pages
          /\ (wrote'[r] /\ ~wrote[r]) =>
               EntryOf(cache', cacheKey[r]).value = pending'[r].value
     /\ (Arrival /\ ~IsBlank(ArrivedReq.q) /\ ~LRUHas(cache, KeyOfReq(ArrivedReq), now))
          => pc' # pc /\ pc'[Stepped] \in {"launch", "newContext"}
     /\ \A j \in 1..Len(cache') :
          /\ DOMAIN cache'[j].value = ResultFields
          /\ \E h \in lastSet' : h.key = cache'[j].key /\ h.value = cache'[j].value]_vars

\* two fetches for one key are in flight, both have scraped and written, with
\* different results; the cache holds one entry
C18_Witness ==
  /\ wrote[1] /\ wrote[2]
  /\ cacheKey[1] = cacheKey[2]
  /\ pending[1].value # pending[2].value
  /\ Len(cache) = 1
  /\ cache[1].value \in {pending[1].value, pending[2].value}
  /\ contexts = {id[1], id[2]}
  /\ id[1] # id[2]

\* the awaits of the login phase
LoginPhase == {LoginSteps[j] : j \in 1..Len(LoginSteps)}

\* C19: the login phase runs exactly for the fetches whose login flag is true
\* (login=1 was sent) while both credentials are configured; a fetch without
\* one of the three goes from the new page straight to the search navigation;
\* a rejected step of the login phase ends the try block with that step's
\* error, the search page is navigated to only from the new page or after the
\* last login step has resolved, and the fetch is answered with HTTP 500.
C19_LoginGate ==
  [][\A r \in Reqs :
       /\ pc'[r] \in TrySteps =>
            args'[r].login = (req'[r].login = Str(<<"1">>))
       /\ pc'[r] \in LoginPhase =>
            args'[r].login /\ env.email /\ env.password
       /\ (pc[r] = "newPage" /\ pc'[r] \in TrySteps) =>
            IF req[r].login = Str(<<"1">>) /\ env.email /\ env.password
              THEN pc'[r] = "loginGoto"
              ELSE pc'[r] = "goto"
       /\ (pc[r] \in LoginPhase /\ pc'[r] = "pageClose") =>
            pending'[r] = Thrown(pc[r])
       /\ (pc'[r] = "goto" /\ pc[r] # "goto") => pc[r] \in {"newPage", "submit"}
       /\ (pc[r] \in FinallySteps /\ pending[r].kind = "throw" /\ pc'[r] = "idle") =>
            last'.resp.status = 500]_vars

\* with both credentials configured a login=1 request was answered 500 with
\* the error of the password field, nothing written
C19_Witness ==
  /\ last.resp = Failed("fillPassword")
  /\ last.req.login = Str(<<"1">>)
  /\ env.email /\ env.password
  /\ cache = <<>>

====
